---- MODULE Spec2Model ----
(***************************************************************************)
(* MQ2Lua: the cooperative script scheduler of the lua plugin.             *)
(*                                                                         *)
(* The model follows src/plugins/lua/MQ2Lua.cpp: the live thread vector    *)
(* s_running, the process table s_infoMap, the commands /lua run, parse,   *)
(* stop and pause, the heartbeat OnPulse with its registry GC, the line    *)
(* callbacks and the infoGC option of ReadSettings.                        *)
(* LuaThread (Run, Pause, StartFile, EndRun, SetResult, the pid counter,  *)
(* the delay gate) is declared outside the three source files, and         *)
(* LuaEvent.h and LuaCommon.h only declare the event processor and the     *)
(* script calls delay, doevents and addevent; those operators are          *)
(* modelled from the design document and are marked so in the map.         *)
(***************************************************************************)
EXTENDS Integers, Sequences, FiniteSets, TLC

VARIABLES
    s_running,        \* std::vector<std::shared_ptr<LuaThread>>, in launch order
    s_infoMap,        \* std::unordered_map<uint32_t, LuaThreadInfo>
    s_infoGC,         \* the configured retention value
    last_check_time,  \* OnPulse's function-local static; 0 = not yet initialised
    now,              \* system_clock, as time_t
    next_id,          \* the pid the next LuaThread receives
    clock,            \* the host's millisecond tick count
    tickIntervalMs,   \* what the tick count advances by from one pulse to the next
    exited,           \* history: pids whose coroutine reported a terminal status or was stopped
    lastOp            \* history: the operation that produced this state and what it did

vars == <<s_running, s_infoMap, s_infoGC, last_check_time, now, next_id, clock,
          tickIntervalMs, exited, lastOp>>

----------------------------------------------------------------------------
(* Bounds of the model *)

MaxLaunch == 2
MaxOrder == 3
MaxTime == 5

(* The inputs the commands are tried with *)

ParseName == "lua parse"
FileScripts == {"a", "a.lua", "b"}
MissingScripts == {"zz"}
Scripts == FileScripts \cup MissingScripts
GCIntervals == {0, 2}
Pids == 1..MaxLaunch

----------------------------------------------------------------------------
(* Paths: script_path = luaDir / script, ".lua" added when there is no extension *)

HasExtension(script) == script \in {"a.lua"}

ScriptPath(script) == IF HasExtension(script) THEN script ELSE script \o ".lua"

PathExists(path) == path \in {"a.lua", "b.lua"}

Equivalent(p, q) == PathExists(p) /\ p = q

----------------------------------------------------------------------------
(* LuaThread and LuaThreadInfo *)

NoResult == <<"nullopt">>

(* A thread: its coroutine, its state (paused, delayed until wake and until
   cond holds), its event processor (defs, queue).  History fields: skips, the
   pulses that passed it over since its delay call; done, the handlers it has
   run; log, the invocations its latest resume handled; call, the trigger call
   its latest resume made. *)
NewThread(pid, name) ==
    [pid |-> pid, name |-> name, co |-> "yielded", loaded |-> FALSE,
     paused |-> FALSE, abandoned |-> FALSE,
     wake |-> 0, cond |-> "none", skips |-> 0,
     defs |-> <<>>, queue |-> <<>>, done |-> 0, log |-> <<>>, call |-> "none"]

(* StartFile / StartString: the chunk loads and the coroutine is ready to be
   resumed, or the load fails, no info is returned and the coroutine member is
   left as constructed or holding the failed load *)
StartResults ==
    {[ok |-> TRUE, co |-> "yielded"], [ok |-> FALSE, co |-> "yielded"],
     [ok |-> FALSE, co |-> "syntax"]}

Started(thread, start) == [thread EXCEPT !.co = start.co, !.loaded = start.ok]

NewInfo(pid, name, path) ==
    [pid |-> pid, name |-> name, path |-> path, startTime |-> now, endTime |-> 0,
     returnValues |-> <<>>, status |-> "Starting"]

EndRun(info) == [info EXCEPT !.endTime = now, !.status = "Exited"]

SetResult(info, values) ==
    [info EXCEPT !.endTime = now, !.status = "Exited", !.returnValues = values]

(* Mutant: the pid counter is not advanced *)
NextIDStuck(id) == id

NextID(id) == id + 1

(* state->Pause(thread, turbo): a toggle that reports the new status *)
Pause(thread) == [thread EXCEPT !.paused = ~thread.paused]

PauseStatus(thread) == IF thread.paused THEN "Running" ELSE "Paused"

IsPaused(thread) == thread.paused

(* Mutant: the stop command forgets to invalidate the context *)
AbandonForgotten(thread) == thread

(* YieldAt(0) followed by thread.abandon() *)
Abandon(thread) == [thread EXCEPT !.abandoned = TRUE]

----------------------------------------------------------------------------
(* LuaEventProcessor (LuaEvent.h): EventDefinitions is a vector of triggers in
   registration order, EventQueue a std::queue of the invocations that matched.
   A trigger (LuaEvent) has a name, an expression and a function. *)

EventNames == {"A", "B"}

Lines == {"a", "ab"}

(* The expression a matches the lines a and ab, the expression b the lines b
   and ab; the expression #1 is malformed and matches nothing *)
Matches(expression, line) ==
    \/ expression = "a" /\ line \in {"a", "ab"}
    \/ expression = "b" /\ line \in {"b", "ab"}

Malformed(expression) == expression = "#1"

NewTrigger(name, expression, function) ==
    [name |-> name, expression |-> expression, function |-> function]

(* LuaEventInstance: the definition and the captured arguments *)
NewEvent(name, line) == [name |-> name, args |-> line]

(* Mutant: push puts the invocation in front *)
QueuePushFront(queue, event) == <<event>> \o queue

(* std::queue: push at the back, front and pop at the head *)
QueuePush(queue, event) == Append(queue, event)

QueueFront(queue) == Head(queue)

QueuePop(queue) == Tail(queue)

RECURSIVE PushAll(_, _)
PushAll(queue, events) ==
    IF events = <<>> THEN queue
    ELSE PushAll(QueuePush(queue, Head(events)), Tail(events))

remove_event(defs, name) == SelectSeq(defs, LAMBDA d : d.name # name)

(* Mutant: the new trigger is added next to the old one of that name *)
add_event_keeps_old(defs, name, expression, function) ==
    IF Malformed(expression) THEN defs
    ELSE Append(defs, NewTrigger(name, expression, function))

(* Mutant: the old trigger is removed before the expression is compiled *)
add_event_removes_first(defs, name, expression, function) ==
    IF Malformed(expression) THEN remove_event(defs, name)
    ELSE Append(remove_event(defs, name), NewTrigger(name, expression, function))

(* A malformed expression is rejected and nothing changes; a name is registered
   once: the old trigger of that name is removed first *)
add_event(defs, name, expression, function) ==
    IF Malformed(expression) THEN defs
    ELSE Append(remove_event(defs, name), NewTrigger(name, expression, function))

(* Mutant: only the first trigger that matches the line fires *)
MatchedFirstOnly(defs, line) ==
    LET hit == SelectSeq(defs, LAMBDA d : Matches(d.expression, line))
    IN IF hit = <<>> THEN <<>> ELSE <<NewEvent(hit[1].name, line)>>

(* The triggers the line matches, in registration order *)
Matched(defs, line) ==
    LET hit == SelectSeq(defs, LAMBDA d : Matches(d.expression, line))
    IN [k \in 1..Len(hit) |-> NewEvent(hit[k].name, line)]

Enqueue(thread, line) ==
    [thread EXCEPT !.queue = PushAll(@, Matched(thread.defs, line))]

(* The functions registered under the name A write the line b, which the
   thread's own processor is fed; those registered under B write nothing *)
RunHandler(thread, event) ==
    LET ran == [thread EXCEPT !.done = @ + 1, !.log = Append(@, event)]
    IN IF event.name = "A" THEN Enqueue(ran, "b") ELSE ran

RECURSIVE Drain(_, _)
Drain(thread, count) ==
    IF count = 0 \/ thread.queue = <<>> THEN thread
    ELSE Drain(RunHandler([thread EXCEPT !.queue = QueuePop(@)], QueueFront(thread.queue)),
               count - 1)

(* Mutant: run_events pops until the queue is empty *)
run_events_until_empty(thread) == Drain(thread, Len(thread.queue) + Len(thread.queue))

(* run_events: the invocations queued at entry, each handler to completion *)
run_events(thread) == Drain(thread, Len(thread.queue))

(* process: the matches are queued *)
process(thread, line) == Enqueue(thread, line)

----------------------------------------------------------------------------
(* Delay *)

(* The tick count as read during the pulse that is being made *)
TickCount == clock + tickIntervalMs

(* The duration the script asks for *)
DelayArg == 500

delay(thread, condition) ==
    [thread EXCEPT !.wake = TickCount + DelayArg, !.cond = condition, !.skips = 0]

Delayed(thread) == thread.wake > 0

(* Mutant: the wake time has to be strictly in the past *)
DelayMetStrictly(thread) == TickCount > thread.wake /\ thread.cond # "never"

(* Mutant: the wake time is a timeout for the condition *)
DelayMetOrTimeout(thread) == TickCount >= thread.wake \/ thread.cond = "true"

(* The wake time has come and the condition, if there is one, holds *)
DelayMet(thread) == TickCount >= thread.wake /\ thread.cond # "never"

Woken(thread) ==
    [thread EXCEPT !.wake = 0, !.cond = "none", !.log = <<>>, !.call = "none"]

----------------------------------------------------------------------------
(* The coroutine call itself: the context is resumed (resumed), and its
   interpreted work ends by yielding, returning or raising; before it yields
   the script may have called delay, doevents or addevent.  Calling a
   coroutine whose chunk never loaded fails at once. *)
Outcomes == {"yield", "return", "fault"}

EventOutcomes == {"yield", "doevents", "addA", "addB"}

TriggerOutcomes == {"yield", "addA", "addB", "readdA", "addBad", "removeA"}

(* The script's call of mq.event, and what it registers *)
addevent(thread, call, name, expression, function) ==
    [thread EXCEPT !.defs = add_event(@, name, expression, function), !.call = call]

removeevent(thread, call, name) ==
    [thread EXCEPT !.defs = remove_event(@, name), !.call = call]

DelayOutcomes == {"yield", "return", "delay", "wait"}

Result(status, second, resumed, thread) ==
    [status |-> status, second |-> second, resumed |-> resumed, thread |-> thread]

Resume(thread, outcome) ==
    CASE ~thread.loaded       -> Result("runtime", NoResult, TRUE, thread)
      [] outcome = "yield"    -> Result("yielded", NoResult, TRUE, thread)
      [] outcome = "return"   -> Result("ok", <<"r">>, TRUE, thread)
      [] outcome = "fault"    -> Result("runtime", NoResult, TRUE, thread)
      [] outcome = "delay"    -> Result("yielded", NoResult, TRUE, delay(thread, "none"))
      [] outcome = "wait"     -> Result("yielded", NoResult, TRUE, delay(thread, "never"))
      [] outcome = "doevents" -> Result("yielded", NoResult, TRUE, run_events(thread))
      [] outcome = "addA"     ->
            Result("yielded", NoResult, TRUE, addevent(thread, outcome, "A", "a", "f"))
      [] outcome = "addB"     ->
            Result("yielded", NoResult, TRUE, addevent(thread, outcome, "B", "b", "f"))
      [] outcome = "readdA"   ->
            Result("yielded", NoResult, TRUE, addevent(thread, outcome, "A", "b", "g"))
      [] outcome = "addBad"   ->
            Result("yielded", NoResult, TRUE, addevent(thread, outcome, "A", "#1", "g"))
      [] outcome = "removeA"  ->
            Result("yielded", NoResult, TRUE, removeevent(thread, outcome, "A"))

(* LuaThread::Run: an invalidated context is rejected, a paused thread is
   skipped, a delayed thread is skipped until its delay is met *)
Run(thread, outcome) ==
    IF thread.abandoned THEN Result("dead", NoResult, FALSE, thread)
    ELSE IF thread.paused THEN Result("yielded", NoResult, FALSE, thread)
    ELSE IF Delayed(thread) /\ ~DelayMet(thread)
    THEN Result("yielded", NoResult, FALSE, [thread EXCEPT !.skips = @ + 1])
    ELSE Resume(Woken(thread), outcome)

----------------------------------------------------------------------------
(* s_infoMap operations *)

EmptyMap == [p \in {} |-> 0]

Erase(map, pid) == [p \in DOMAIN map \ {pid} |-> map[p]]

Emplace(map, pid, info) ==
    [p \in DOMAIN map \cup {pid} |-> IF p \in DOMAIN map THEN map[p] ELSE info]

(* std::find_if over the vector: the first of the indices that satisfy the
   predicate, 0 for end() *)
FindIf(hits) ==
    IF hits = {} THEN 0 ELSE CHOOSE i \in hits : \A j \in hits : i <= j

(* What an operation did, for the history variable: the pids a pulse visited
   in order, the status each reported, the pids it resumed, the pids whose info
   it closed (one entry per update), the pids the GC swept; the info a launch
   evicted; s_running and s_infoMap as a pause command found them; the pids a
   pulse removed while they were paused or delayed *)
NoTrail == [visited |-> <<>>, status |-> <<>>, ran |-> {}, updated |-> <<>>,
            swept |-> {}, evicted |-> {}, before |-> <<>>, held |-> {}]

Op(name, arg, ret, why) ==
    [op |-> name, arg |-> arg, ret |-> ret, why |-> why, trail |-> NoTrail]

----------------------------------------------------------------------------
Init ==
    /\ s_running = <<>>
    /\ s_infoMap = EmptyMap
    /\ s_infoGC \in GCIntervals
    /\ last_check_time = 0
    /\ now = 1
    /\ next_id = 1
    /\ clock = 0
    /\ tickIntervalMs = 0
    /\ exited = {}
    /\ lastOp = Op("init", "", 0, "")

Tick ==
    /\ now < MaxTime
    /\ now' = now + 1
    /\ lastOp' = Op("tick", "", 0, "")
    /\ UNCHANGED <<s_running, s_infoMap, s_infoGC, last_check_time, next_id, clock,
                   tickIntervalMs, exited>>

(* /lua run: src/plugins/lua/MQ2Lua.cpp, LuaRunCommand *)

(* Mutant: the name the script was launched under is compared, not the path *)
InfoHasName(info, script_path) == info.name = script_path

InfoHasPath(info, script_path) == Equivalent(info.path, script_path)

IsRunningInfo(info) == info.status # "Exited"

(* Mutant: the new thread is put in front of the vector *)
EmplaceFront(running, entry) == <<entry>> \o running

EmplaceBack(running, entry) == Append(running, entry)

RegisterInfo(map, info) == Emplace(map, info.pid, [info EXCEPT !.status = "Running"])

Launch(name, path, info_it, start, op) ==
    LET entry == NewThread(next_id, name)
        erased == IF info_it # 0 THEN Erase(s_infoMap, info_it) ELSE s_infoMap
    IN /\ next_id' = NextID(next_id)
       /\ s_running' = EmplaceBack(s_running, Started(entry, start))
       /\ s_infoMap' = IF start.ok THEN RegisterInfo(erased, NewInfo(entry.pid, name, path))
                       ELSE erased
       /\ lastOp' = [Op(op, name, IF start.ok THEN entry.pid ELSE 0,
                        IF start.ok THEN "Started" ELSE "StartFailed")
                     EXCEPT !.trail.evicted = IF info_it # 0 THEN {info_it} ELSE {}]
       /\ UNCHANGED <<s_infoGC, last_check_time, now, clock, tickIntervalMs, exited>>

(* Mutant: the thread is made and put in s_running before the launch is
   rejected *)
RejectedAfterEmplace(op, arg, why) ==
    /\ lastOp' = Op(op, arg, 0, why)
    /\ s_running' = EmplaceBack(s_running, NewThread(next_id, arg))
    /\ next_id' = NextID(next_id)
    /\ UNCHANGED <<s_infoMap, s_infoGC, last_check_time, now, clock, tickIntervalMs,
                   exited>>

Rejected(op, arg, why) ==
    /\ lastOp' = Op(op, arg, 0, why)
    /\ UNCHANGED <<s_running, s_infoMap, s_infoGC, last_check_time, now, next_id, clock,
                   tickIntervalMs, exited>>

LuaRunCommand(script, start) ==
    LET script_path == ScriptPath(script)
        found == {p \in DOMAIN s_infoMap : InfoHasPath(s_infoMap[p], script_path)}
    IN IF ~PathExists(script_path)
       THEN Rejected("run", script, "NotFound")
       ELSE \E info_it \in (IF found = {} THEN {0} ELSE found) :
                IF info_it # 0 /\ IsRunningInfo(s_infoMap[info_it])
                THEN Rejected("run", script, "AlreadyRunning")
                ELSE Launch(script, script_path, info_it, start, "run")

(* /lua parse: LuaParseCommand *)

(* Mutant: the name is looked for in the path of the info *)
IsParseInfoByPath(info) == info.path = ParseName

IsParseInfo(info) == info.name = ParseName

LuaParseCommand(start) ==
    LET found == {p \in DOMAIN s_infoMap : IsParseInfo(s_infoMap[p])}
    IN \E info_it \in (IF found = {} THEN {0} ELSE found) :
           IF info_it # 0 /\ s_infoMap[info_it].endTime = 0
           THEN Rejected("parse", ParseName, "AlreadyRunning")
           ELSE Launch(ParseName, "", info_it, start, "parse")

(* /lua stop and /lua pause: a target is a pid (a numeric argument), a name, or absent *)

Targets ==
    {[kind |-> "all"]}
    \cup {[kind |-> "pid", pid |-> p] : p \in Pids}
    \cup {[kind |-> "name", name |-> n] : n \in FileScripts \cup {ParseName}}

(* The command's argument as typed: nothing, a pid in decimal, or a name *)
TargetArg(target) ==
    CASE target.kind = "all"  -> ""
      [] target.kind = "pid"  -> ToString(target.pid)
      [] target.kind = "name" -> target.name

FindThread(target) ==
    IF target.kind = "pid"
    THEN FindIf({i \in 1..Len(s_running) : s_running[i].pid = target.pid})
    ELSE FindIf({i \in 1..Len(s_running) : s_running[i].name = target.name})

(* Mutant: every thread of that name is stopped *)
StopTargetsEveryMatch(target) ==
    IF target.kind = "all" THEN 1..Len(s_running)
    ELSE IF target.kind = "pid"
    THEN {i \in 1..Len(s_running) : s_running[i].pid = target.pid}
    ELSE {i \in 1..Len(s_running) : s_running[i].name = target.name}

StopTargets(target) ==
    IF target.kind = "all" THEN 1..Len(s_running)
    ELSE IF FindThread(target) # 0 THEN {FindThread(target)} ELSE {}

LuaStopCommand(target) ==
    LET hit == StopTargets(target)
    IN /\ s_running' = [i \in 1..Len(s_running) |->
                            IF i \in hit THEN Abandon(s_running[i]) ELSE s_running[i]]
       /\ exited' = exited \cup {s_running[i].pid : i \in hit}
       /\ lastOp' = Op("stop", TargetArg(target), 0, IF hit = {} THEN "NoMatch" ELSE "Stopped")
       /\ UNCHANGED <<s_infoMap, s_infoGC, last_check_time, now, next_id, clock, tickIntervalMs>>

AnyRunning == \E i \in 1..Len(s_running) : ~IsPaused(s_running[i])

(* With no target both branches call Pause on every thread of s_running *)
PauseTargets(target) ==
    IF target.kind # "all"
    THEN IF FindThread(target) # 0 THEN {FindThread(target)} ELSE {}
    ELSE IF AnyRunning THEN 1..Len(s_running)
    ELSE IF s_running # <<>> THEN 1..Len(s_running)
    ELSE {}

PauseMessage(target) ==
    IF target.kind # "all"
    THEN IF FindThread(target) # 0 THEN "Toggled" ELSE "NoMatch"
    ELSE IF AnyRunning THEN "PausingAll"
    ELSE IF s_running # <<>> THEN "ResumingAll"
    ELSE "NothingToPause"

(* Mutant: the status is stored in every info of the map *)
MirrorPauseEveryInfo(map, hit) ==
    [p \in DOMAIN map |->
        IF hit # {} THEN [map[p] EXCEPT !.status = PauseStatus(s_running[FindIf(hit)])]
        ELSE map[p]]

(* Mutant: only the info of the first thread of the loop is updated *)
MirrorPauseFirstOnly(map, hit) ==
    [p \in DOMAIN map |->
        IF hit # {} /\ s_running[FindIf(hit)].pid = p
        THEN [map[p] EXCEPT !.status = PauseStatus(s_running[FindIf(hit)])]
        ELSE map[p]]

(* Mutant: the info is marked Paused whatever status Pause reports *)
MirrorPauseAlwaysPaused(map, hit) ==
    [p \in DOMAIN map |->
        IF \E i \in hit : s_running[i].pid = p
        THEN [map[p] EXCEPT !.status = "Paused"]
        ELSE map[p]]

(* info->second.status = status, when the pid has an info entry *)
MirrorPause(map, hit) ==
    [p \in DOMAIN map |->
        IF \E i \in hit : s_running[i].pid = p
        THEN LET i == CHOOSE i \in hit : s_running[i].pid = p
             IN [map[p] EXCEPT !.status = PauseStatus(s_running[i])]
        ELSE map[p]]

LuaPauseCommand(target) ==
    LET hit == PauseTargets(target)
    IN /\ s_running' = [i \in 1..Len(s_running) |->
                            IF i \in hit THEN Pause(s_running[i]) ELSE s_running[i]]
       /\ s_infoMap' = MirrorPause(s_infoMap, hit)
       /\ lastOp' = [Op("pause", TargetArg(target), 0, PauseMessage(target))
                     EXCEPT !.trail.before = <<s_running, s_infoMap>>]
       /\ UNCHANGED <<s_infoGC, last_check_time, now, next_id, clock, tickIntervalMs, exited>>

(* OnPulse: the remove_if pass over s_running, then the registry GC *)

(* Mutant: the pass calls the coroutine itself instead of LuaThread::Run *)
PulseResultResumesDirectly(thread, outcome) ==
    IF thread.co = "yielded" THEN Resume(thread, outcome)
    ELSE Result(thread.co, NoResult, FALSE, thread)

(* Mutant: the pass itself passes over a paused thread *)
PulseResultSkipsPaused(thread, outcome) ==
    IF thread.co = "yielded" /\ ~thread.paused THEN Run(thread, outcome)
    ELSE IF thread.co = "yielded" THEN Result("yielded", NoResult, FALSE, thread)
    ELSE Result(thread.co, NoResult, FALSE, thread)

(* Mutant: the pass runs a thread without looking at its coroutine's status *)
PulseResultIgnoresStatus(thread, outcome) == Run(thread, outcome)

PulseResult(thread, outcome) ==
    IF thread.co = "yielded" THEN Run(thread, outcome)
    ELSE Result(thread.co, NoResult, FALSE, thread)

Ended(result) == result.status # "yielded"

(* Mutant: only a result with values closes the info *)
FinalInfoWithoutEndRun(info, result) ==
    IF result.second # NoResult THEN SetResult(info, result.second) ELSE info

FinalInfo(info, result) ==
    IF result.second # NoResult THEN SetResult(info, result.second) ELSE EndRun(info)

PulseStart == [running |-> <<>>, info |-> s_infoMap, trail |-> NoTrail]

PulseVisit(acc, thread, result) ==
    LET seen == [acc.trail EXCEPT
                    !.visited = Append(@, thread.pid),
                    !.status = Append(@, result.status),
                    !.ran = IF result.resumed THEN @ \cup {thread.pid} ELSE @]
    IN IF Ended(result)
       THEN [running |-> acc.running,
             info |-> IF thread.pid \in DOMAIN acc.info
                      THEN [acc.info EXCEPT ![thread.pid] = FinalInfo(@, result)]
                      ELSE acc.info,
             trail |-> [seen EXCEPT
                          !.updated = IF thread.pid \in DOMAIN acc.info
                                      THEN Append(@, thread.pid) ELSE @,
                          !.held = IF thread.paused \/ Delayed(thread)
                                   THEN @ \cup {thread.pid} ELSE @]]
       ELSE [acc EXCEPT !.running = Append(@, result.thread), !.trail = seen]

(* Mutant: a runtime error ends the pass, the threads behind it are not visited *)
RECURSIVE PulseLoopEndsOnFault(_, _, _)
PulseLoopEndsOnFault(i, acc, outcome) ==
    IF i > Len(s_running) THEN acc
    ELSE LET result == PulseResult(s_running[i], outcome[i])
             visited == PulseVisit(acc, s_running[i], result)
         IN IF result.status = "runtime"
            THEN [visited EXCEPT
                     !.running = @ \o SubSeq(s_running, i + 1, Len(s_running))]
            ELSE PulseLoopEndsOnFault(i + 1, visited, outcome)

RECURSIVE PulseLoop(_, _, _)
PulseLoop(i, acc, outcome) ==
    IF i > Len(s_running) THEN acc
    ELSE PulseLoop(i + 1,
                   PulseVisit(acc, s_running[i], PulseResult(s_running[i], outcome[i])),
                   outcome)

(* One second of the time_t clock in the unit s_infoGC is stored in *)
MsPerSecond == 1000

GCDue(now_time, last) == now_time >= last + s_infoGC

(* Mutant: the sweep looks at the age only and takes an info that is still
   running *)
GCErasableByAge(info, last) == info.endTime <= last

(* Mutant: an info that ended exactly at the checkpoint is kept *)
GCErasableStrictlyBefore(info, last) == info.endTime > 0 /\ info.endTime < last

GCErasable(info, last) == info.endTime > 0 /\ info.endTime <= last

GCSweep(map, last) ==
    LET kept == {p \in DOMAIN map : ~GCErasable(map[p], last)}
    IN [p \in kept |-> map[p]]

(* The pids whose coroutine reported a status other than yielded *)
TerminalIn(trail) ==
    {trail.visited[k] : k \in {j \in 1..Len(trail.visited) : trail.status[j] # "yielded"}}

(* One outcome for every loaded coroutine the pass resumes *)
PulseOutcomesOf(outcomes) ==
    {outcome \in [1..Len(s_running) -> outcomes] :
        \A i \in 1..Len(s_running) :
            \/ s_running[i].loaded /\ PulseResult(s_running[i], "yield").resumed
            \/ outcome[i] = "yield"}

PulseOutcomes == PulseOutcomesOf(Outcomes)

OnPulse(outcome) ==
    LET acc == PulseLoop(1, PulseStart, outcome)
        last == IF last_check_time = 0 THEN now ELSE last_check_time
        sweep == s_infoGC > 0 /\ GCDue(now, last)
        map == IF sweep THEN GCSweep(acc.info, last) ELSE acc.info
    IN /\ s_running' = acc.running
       /\ s_infoMap' = map
       /\ last_check_time' = IF s_infoGC > 0 THEN (IF sweep THEN now ELSE last)
                             ELSE last_check_time
       /\ exited' = exited \cup TerminalIn(acc.trail)
       /\ lastOp' = [Op("pulse", "", 0, IF sweep THEN "Swept" ELSE "NoSweep")
                     EXCEPT !.trail = [acc.trail EXCEPT
                                          !.swept = DOMAIN acc.info \ DOMAIN map]]
       /\ clock' = TickCount
       /\ UNCHANGED <<s_infoGC, now, next_id, tickIntervalMs>>

----------------------------------------------------------------------------
(* ${Lua.Script} without an index: MQ2LuaType::GetMember, Members::Script.
   order is the order in which the unordered_map is iterated. *)

Orders(map) ==
    {order \in [1..Cardinality(DOMAIN map) -> DOMAIN map] :
        \A k, l \in DOMAIN order : k # l => order[k] # order[l]}

RECURSIVE Latest(_, _, _)
Latest(order, k, latest) ==
    IF k > Len(order) THEN latest
    ELSE Latest(order, k + 1,
                IF /\ s_infoMap[order[k]].endTime > 0
                   /\ s_infoMap[order[k]].startTime > s_infoMap[latest].startTime
                THEN order[k] ELSE latest)

(* The pid of the info the member returns, 0 when it returns false *)
ScriptMember(order) ==
    IF s_infoMap = EmptyMap THEN 0
    ELSE LET latest == Latest(order, 1, order[1])
         IN IF s_infoMap[latest].endTime > 0 THEN latest ELSE 0

GetMemberScript(order) ==
    /\ lastOp' = Op("script", "", ScriptMember(order),
                    IF ScriptMember(order) = 0 THEN "NotFound" ELSE "Found")
    /\ UNCHANGED <<s_running, s_infoMap, s_infoGC, last_check_time, now, next_id, clock,
                   tickIntervalMs, exited>>
----------------------------------------------------------------------------

(* The host's text lines: OnWriteChatColor and OnIncomingChat feed the line to
   the event processor of every thread that is not paused *)

(* Mutant: the callback also drains the queue of the thread it fed *)
DeliverAndRunEvents(line) ==
    [i \in 1..Len(s_running) |->
        IF ~IsPaused(s_running[i]) THEN run_events(process(s_running[i], line))
        ELSE s_running[i]]

(* Mutant: the line is fed to every thread, paused or not *)
DeliverToAll(line) ==
    [i \in 1..Len(s_running) |-> process(s_running[i], line)]

Deliver(line) ==
    [i \in 1..Len(s_running) |->
        IF ~IsPaused(s_running[i]) THEN process(s_running[i], line) ELSE s_running[i]]

OnWriteChatColor(line) ==
    /\ s_running' = Deliver(line)
    /\ lastOp' = Op("write", line, 0, "")
    /\ UNCHANGED <<s_infoMap, s_infoGC, last_check_time, now, next_id, clock,
                   tickIntervalMs, exited>>

OnIncomingChat(line) ==
    /\ s_running' = Deliver(line)
    /\ lastOp' = Op("chat", line, 0, "")
    /\ UNCHANGED <<s_infoMap, s_infoGC, last_check_time, now, next_id, clock,
                   tickIntervalMs, exited>>

----------------------------------------------------------------------------
(* ReadSettings: the infoGC option.  A value is a std::string, modelled as the
   sequence of its characters. *)

DefaultInfoGC == 3600000

DigitChars == <<"0", "1", "2", "3", "4", "5", "6", "7", "8", "9">>

IsDigit(c) == \E d \in 1..10 : DigitChars[d] = c

DigitValue(c) == (CHOOSE d \in 1..10 : DigitChars[d] = c) - 1

(* The decimal form of a number, as the configuration file holds it *)
RECURSIVE ToChars(_)
ToChars(n) ==
    IF n < 10 THEN <<DigitChars[n + 1]>>
    ELSE Append(ToChars(n \div 10), DigitChars[(n % 10) + 1])

(* trim: the blanks at both ends are dropped *)
RECURSIVE Trim(_)
Trim(text) ==
    IF text = <<>> THEN text
    ELSE IF Head(text) = " " THEN Trim(Tail(text))
    ELSE IF text[Len(text)] = " " THEN Trim(SubSeq(text, 1, Len(text) - 1))
    ELSE text

(* std::from_chars: the digits at the front are read; without one the value is
   left as it was *)
RECURSIVE ReadDigits(_, _)
ReadDigits(text, value) ==
    IF text = <<>> \/ ~IsDigit(Head(text)) THEN value
    ELSE ReadDigits(Tail(text), value * 10 + DigitValue(Head(text)))

FromChars(text, value) ==
    IF text = <<>> \/ ~IsDigit(Head(text)) THEN value ELSE ReadDigits(text, 0)

EndsWith(text, suffix) ==
    /\ Len(text) >= Len(suffix)
    /\ SubSeq(text, Len(text) - Len(suffix) + 1, Len(text)) = suffix

DropLast(text, n) == SubSeq(text, 1, Len(text) - n)

(* The chain of tests on GC_interval: all digits, then the units h, m, ms, s *)
GCInterval(text, old) ==
    IF Len(text) > 1 /\ \A k \in 1..Len(text) : IsDigit(text[k])
    THEN FromChars(text, old)
    ELSE IF Len(text) > 1 /\ EndsWith(text, <<"h">>)
    THEN FromChars(DropLast(text, 1), 0) * 3600000
    ELSE IF Len(text) > 1 /\ EndsWith(text, <<"m">>)
    THEN FromChars(DropLast(text, 1), 0) * 60000
    ELSE IF Len(text) > 2 /\ EndsWith(text, <<"m", "s">>)
    THEN FromChars(DropLast(text, 2), old)
    ELSE IF Len(text) > 1 /\ EndsWith(text, <<"s">>)
    THEN FromChars(DropLast(text, 1), 0) * MsPerSecond
    ELSE old

(* The forms of the option: a number and a unit, with or without blanks *)
Units == {"", "ms", "s", "m", "h"}

UnitChars(unit) ==
    CASE unit = ""   -> <<>>
      [] unit = "ms" -> <<"m", "s">>
      [] unit = "s"  -> <<"s">>
      [] unit = "m"  -> <<"m">>
      [] unit = "h"  -> <<"h">>

ReadSettings(n, unit, blanks) ==
    LET value == ToChars(n) \o UnitChars(unit)
        GC_interval == IF blanks THEN <<" ">> \o value \o <<" ">> ELSE value
    IN /\ s_infoGC' = GCInterval(Trim(GC_interval), s_infoGC)
       /\ lastOp' = Op("settings", ToString(n) \o unit, n, unit)
       /\ UNCHANGED <<s_running, s_infoMap, last_check_time, now, next_id, clock,
                      tickIntervalMs, exited>>

----------------------------------------------------------------------------

(* Specifications.  Each one lets the environment issue the commands with the
   inputs named in it; the handlers are the same in all of them. *)

LoadOk == [ok |-> TRUE, co |-> "yielded"]

LoadFailed == [ok |-> FALSE, co |-> "syntax"]

PidTargets == {[kind |-> "all"]} \cup {[kind |-> "pid", pid |-> p] : p \in Pids}

(* Spec: scheduling. Commands addressed by pid or to all scripts, no clock. *)
Next ==
    \/ next_id <= MaxLaunch /\ \E script \in {"a", "b"}, start \in {LoadOk, LoadFailed} :
                                    LuaRunCommand(script, start)
    \/ \E target \in PidTargets : LuaStopCommand(target)
    \/ \E target \in PidTargets : LuaPauseCommand(target)
    \/ \E outcome \in PulseOutcomes : OnPulse(outcome)

Spec == Init /\ [][Next]_vars

(* SpecLaunch: every way of naming a script, every result of loading it. *)
NextLaunch ==
    \/ next_id <= MaxLaunch /\ \E script \in Scripts, start \in StartResults :
                                    LuaRunCommand(script, start)
    \/ next_id <= MaxLaunch /\ \E start \in StartResults : LuaParseCommand(start)
    \/ \E outcome \in PulseOutcomes : OnPulse(outcome)

SpecLaunch == Init /\ [][NextLaunch]_vars

(* SpecOrder: up to MaxOrder launches, to watch the order of the passes. *)
NextOrder ==
    \/ next_id <= MaxOrder /\ \E script \in {"a", "b"} : LuaRunCommand(script, LoadOk)
    \/ next_id <= MaxOrder /\ LuaParseCommand(LoadOk)
    \/ \E outcome \in PulseOutcomes : OnPulse(outcome)

SpecOrder == Init /\ [][NextOrder]_vars

(* SpecGC: the clock advances between pulses, so the registry GC comes due. *)
NextGC ==
    \/ Tick
    \/ next_id <= MaxLaunch /\ \E script \in {"a", "b"} : LuaRunCommand(script, LoadOk)
    \/ LuaStopCommand([kind |-> "all"])
    \/ \E outcome \in PulseOutcomes : OnPulse(outcome)

SpecGC == Init /\ [][NextGC]_vars
(* The clock, launches, pulses and the un-indexed ${Lua.Script} lookup *)
NextLookup ==
    \/ Tick
    \/ next_id <= MaxLaunch /\ \E script \in {"a", "b"} : LuaRunCommand(script, LoadOk)
    \/ \E outcome \in PulseOutcomes : OnPulse(outcome)
    \/ \E order \in Orders(s_infoMap) : GetMemberScript(order)

SpecLookup == Init /\ [][NextLookup]_vars

(* Bounds of the event and delay specifications *)
MaxEvents == 3
MaxPulses == 7
TickIntervals == {100, 200, 300, 500, 700}

(* No thread has handled and queued MaxEvents invocations yet *)
EventRoom ==
    \A i \in 1..Len(s_running) :
        s_running[i].done + Len(s_running[i].queue) < MaxEvents

(* Text lines, triggers and doevents: scripts whose work registers triggers and
   drains the queue *)
NextEvents ==
    \/ next_id <= MaxLaunch /\ s_running = <<>> /\ LuaRunCommand("a", LoadOk)
    \/ LuaPauseCommand([kind |-> "pid", pid |-> 1])
    \/ EventRoom /\ \E line \in Lines : OnWriteChatColor(line)
    \/ EventRoom /\ \E line \in Lines : OnIncomingChat(line)
    \/ \E outcome \in PulseOutcomesOf(EventOutcomes) : OnPulse(outcome)

SpecEvents == Init /\ [][NextEvents]_vars

(* Delays under a clock that advances by a fixed interval per pulse *)
InitDelay ==
    /\ s_running = <<>>
    /\ s_infoMap = EmptyMap
    /\ s_infoGC = 0
    /\ last_check_time = 0
    /\ now = 1
    /\ next_id = 1
    /\ clock = 0
    /\ tickIntervalMs \in TickIntervals
    /\ exited = {}
    /\ lastOp = Op("init", "", 0, "")

NextDelay ==
    \/ next_id <= MaxLaunch /\ LuaRunCommand("a", LoadOk)
    \/ LuaStopCommand([kind |-> "all"])
    \/ clock < MaxPulses * tickIntervalMs
       /\ \E outcome \in PulseOutcomesOf(DelayOutcomes) : OnPulse(outcome)

SpecDelay == InitDelay /\ [][NextDelay]_vars

(* SpecParse: parsed text launched again and again while the clock runs *)
NextParse ==
    \/ Tick
    \/ next_id <= MaxOrder /\ \E start \in {LoadOk, LoadFailed} : LuaParseCommand(start)
    \/ \E outcome \in PulseOutcomes : OnPulse(outcome)

SpecParse == Init /\ [][NextParse]_vars

(* SpecPause: scripts launched, paused and un-paused by pid, by name or all at
   once, between pulses *)
NextPause ==
    \/ next_id <= MaxLaunch /\ \E script \in {"a", "b"}, start \in {LoadOk, LoadFailed} :
                                    LuaRunCommand(script, start)
    \/ \E target \in Targets : LuaPauseCommand(target)
    \/ \E outcome \in PulseOutcomes : OnPulse(outcome)

SpecPause == Init /\ [][NextPause]_vars

(* SpecTriggers: one script that registers, re-registers and removes triggers
   between the lines the host delivers *)
NextTriggers ==
    \/ next_id <= MaxLaunch /\ s_running = <<>> /\ LuaRunCommand("a", LoadOk)
    \/ EventRoom /\ \E line \in Lines : OnIncomingChat(line)
    \/ \E outcome \in PulseOutcomesOf(TriggerOutcomes) : OnPulse(outcome)

SpecTriggers == Init /\ [][NextTriggers]_vars

(* SpecSettings: the configuration is read again and again, each time with
   another value of the infoGC option *)
MaxN == 25

InitSettings ==
    /\ s_running = <<>>
    /\ s_infoMap = EmptyMap
    /\ s_infoGC = DefaultInfoGC
    /\ last_check_time = 0
    /\ now = 1
    /\ next_id = 1
    /\ clock = 0
    /\ tickIntervalMs = 0
    /\ exited = {}
    /\ lastOp = Op("init", "", 0, "")

NextSettings ==
    \E n \in 0..MaxN, unit \in Units, blanks \in BOOLEAN : ReadSettings(n, unit, blanks)

SpecSettings == InitSettings /\ [][NextSettings]_vars

(* SpecStop: scripts that delay and are paused, and are then stopped *)
StopOutcomes == {"yield", "delay", "wait"}

MaxStopPulses == 4

InitStop ==
    /\ s_running = <<>>
    /\ s_infoMap = EmptyMap
    /\ s_infoGC = 0
    /\ last_check_time = 0
    /\ now = 1
    /\ next_id = 1
    /\ clock = 0
    /\ tickIntervalMs \in {200, 500}
    /\ exited = {}
    /\ lastOp = Op("init", "", 0, "")

NextStop ==
    \/ next_id <= MaxLaunch /\ LuaRunCommand("a", LoadOk)
    \/ \E pid \in Pids : LuaPauseCommand([kind |-> "pid", pid |-> pid])
    \/ \E pid \in Pids : LuaStopCommand([kind |-> "pid", pid |-> pid])
    \/ clock < MaxStopPulses * tickIntervalMs
       /\ \E outcome \in PulseOutcomesOf(StopOutcomes) : OnPulse(outcome)

SpecStop == InitStop /\ [][NextStop]_vars

(* SpecChat: two scripts with triggers, paused and un-paused while the host
   delivers lines *)
ChatOutcomes == {"yield", "addA", "doevents"}

MaxChat == 2

(* No thread has handled and queued MaxChat invocations yet *)
ChatRoom ==
    \A i \in 1..Len(s_running) :
        s_running[i].done + Len(s_running[i].queue) < MaxChat

NextChat ==
    \/ next_id <= MaxLaunch /\ \E script \in {"a", "b"} : LuaRunCommand(script, LoadOk)
    \/ LuaPauseCommand([kind |-> "pid", pid |-> 1])
    \/ ChatRoom /\ OnIncomingChat("a")
    \/ ChatRoom /\ OnWriteChatColor("a")
    \/ \E outcome \in PulseOutcomesOf(ChatOutcomes) : OnPulse(outcome)

SpecChat == Init /\ [][NextChat]_vars

(* SpecTarget: scripts stopped by pid or by name, also where two live threads
   have one name (the first of them failed to load) *)
NextTarget ==
    \/ next_id <= MaxLaunch /\ \E script \in {"a", "b"}, start \in {LoadOk, LoadFailed} :
                                    LuaRunCommand(script, start)
    \/ \E target \in Targets : LuaStopCommand(target)
    \/ \E outcome \in PulseOutcomes : OnPulse(outcome)

SpecTarget == Init /\ [][NextTarget]_vars

(* SpecRecords: scripts end and are launched again while the clock runs, with
   pause and stop commands and host lines in between *)
NextRecords ==
    \/ Tick
    \/ next_id <= MaxLaunch /\ \E script \in {"a", "b"} : LuaRunCommand(script, LoadOk)
    \/ LuaPauseCommand([kind |-> "all"])
    \/ LuaStopCommand([kind |-> "all"])
    \/ OnIncomingChat("a")
    \/ \E outcome \in PulseOutcomes : OnPulse(outcome)

SpecRecords == Init /\ [][NextRecords]_vars

----------------------------------------------------------------------------
(* Properties *)

PidsOf(running) == [i \in 1..Len(running) |-> running[i].pid]

Live == {s_running[i].pid : i \in 1..Len(s_running)}

IsFileThread(thread) == thread.name # ParseName

Count(seq, x) == Cardinality({k \in 1..Len(seq) : seq[k] = x})

Increasing(seq) == \A k, l \in 1..Len(seq) : k < l => seq[k] < seq[l]

IsPulse(op) == op.op = "pulse"

IsLaunch(op) == op.op \in {"run", "parse"}

(* The status thread pid reported in the pulse recorded by op, "none" if not visited *)
StatusIn(op, pid) ==
    IF \E k \in 1..Len(op.trail.visited) : op.trail.visited[k] = pid
    THEN op.trail.status[CHOOSE k \in 1..Len(op.trail.visited) : op.trail.visited[k] = pid]
    ELSE "none"

(* A thread the pass resumes: its coroutine is suspended, it is neither paused nor stopped *)
Runnable(thread) == thread.co = "yielded" /\ ~thread.paused /\ ~thread.abandoned

\* C1: in every reachable state the registry holds a record with endTime = 0
\* for an id if and only if a live script instance with that id is in s_running.
C1_RunningRecordIffLive ==
    \A p \in Live \cup DOMAIN s_infoMap :
        (p \in DOMAIN s_infoMap /\ s_infoMap[p].endTime = 0) <=> p \in Live

\* C2: a pulse never resumes an instance that is paused when the pulse starts,
\* so between a pause and the next un-pause no work of the instance runs.
C2_PausedNotResumed ==
    [][IsPulse(lastOp') =>
         \A i \in 1..Len(s_running) :
             s_running[i].paused => s_running[i].pid \notin lastOp'.trail.ran]_vars

C2_Witness ==
    /\ IsPulse(lastOp)
    /\ lastOp.trail.ran # {}
    /\ \E i \in 1..Len(s_running) :
          /\ s_running[i].paused /\ s_running[i].loaded /\ ~s_running[i].abandoned
          /\ StatusIn(lastOp, s_running[i].pid) = "yielded"
          /\ s_running[i].pid \notin lastOp.trail.ran

\* C3: a launch whose resolved path equals the path of an instance in the live
\* set is rejected (returns 0, the live set is unchanged), and no two live
\* instances ever share a resolved path.
C3_DuplicatePathRejected ==
    [][/\ (lastOp'.op = "run"
           /\ \E i \in 1..Len(s_running) :
                 /\ IsFileThread(s_running[i])
                 /\ ScriptPath(s_running[i].name) = ScriptPath(lastOp'.arg))
          => (lastOp'.ret = 0 /\ s_running' = s_running)
       /\ \A i, j \in 1..Len(s_running') :
             (i # j /\ IsFileThread(s_running'[i]) /\ IsFileThread(s_running'[j]))
             => ScriptPath(s_running'[i].name) # ScriptPath(s_running'[j].name)]_vars

\* C4: launching a script with the same name as a terminal registry record
\* evicts that record and creates exactly one new record, the new instance's.
C4_RelaunchReplacesRecord ==
    [][IsLaunch(lastOp') =>
         \A old \in DOMAIN s_infoMap :
             (s_infoMap[old].name = lastOp'.arg /\ s_infoMap[old].endTime # 0)
             => /\ old \notin DOMAIN s_infoMap'
                /\ Cardinality(DOMAIN s_infoMap' \ DOMAIN s_infoMap) = 1
                /\ DOMAIN s_infoMap' \ DOMAIN s_infoMap = Live' \ Live]_vars

\* C5: after a stop request on a live instance the very next pulse removes the
\* instance from s_running and closes its record, without resuming it.
C5_StopEndsOnNextPulse ==
    [][IsPulse(lastOp') =>
         \A i \in 1..Len(s_running) :
             LET pid == s_running[i].pid
             IN pid \in exited
                => /\ pid \notin Live'
                   /\ pid \notin lastOp'.trail.ran
                   /\ pid \in DOMAIN s_infoMap
                      => /\ pid \in DOMAIN s_infoMap'
                         /\ s_infoMap'[pid].endTime # 0
                         /\ s_infoMap'[pid].status = "Exited"]_vars

C5_Witness ==
    /\ IsPulse(lastOp)
    /\ \E pid \in exited :
          /\ StatusIn(lastOp, pid) = "dead"
          /\ pid \notin Live
          /\ pid \notin lastOp.trail.ran
          /\ pid \in DOMAIN s_infoMap /\ s_infoMap[pid].status = "Exited"

\* C6: a runtime fault of instance A in a pulse does not keep a later instance B
\* from being resumed in that pulse; A ends Exited and the pulse visits every
\* live instance.
C6_FaultIsolated ==
    [][IsPulse(lastOp') =>
         /\ lastOp'.trail.visited = PidsOf(s_running)
         /\ \A i \in 1..Len(s_running) :
               LET a == s_running[i].pid
               IN (a \in lastOp'.trail.ran /\ StatusIn(lastOp', a) = "runtime")
                  => /\ a \notin Live'
                     /\ a \in DOMAIN s_infoMap => s_infoMap'[a].status = "Exited"
                     /\ \A j \in 1..Len(s_running) :
                           (i < j /\ Runnable(s_running[j]))
                           => s_running[j].pid \in lastOp'.trail.ran]_vars

C6_Witness ==
    /\ IsPulse(lastOp)
    /\ \E k, l \in 1..Len(lastOp.trail.visited) :
          /\ k < l
          /\ lastOp.trail.status[k] = "runtime"
          /\ lastOp.trail.visited[k] \in lastOp.trail.ran
          /\ lastOp.trail.visited[k] \in DOMAIN s_infoMap
          /\ lastOp.trail.visited[l] \in lastOp.trail.ran

\* C7: every pulse visits the live instances in the order they were launched
\* (pids are handed out in launch order), and launches and reaping keep
\* s_running in that order.
C7_LaunchOrder ==
    [][/\ Increasing(PidsOf(s_running'))
       /\ IsPulse(lastOp') =>
            /\ lastOp'.trail.visited = PidsOf(s_running)
            /\ Increasing(lastOp'.trail.visited)]_vars

C7_Witness ==
    /\ IsPulse(lastOp)
    /\ lastOp.trail.visited = <<1, 3>>
    /\ lastOp.trail.ran = {1, 3}
    /\ 2 \in DOMAIN s_infoMap /\ s_infoMap[2].endTime # 0

\* C8: an instance whose coroutine reports a status other than yielded in a
\* pulse is out of s_running at the end of that pulse and its record has got
\* exactly one final update: endTime set, status Exited, the return values.
C8_TerminalReapedOnce ==
    [][IsPulse(lastOp') =>
         \A k \in 1..Len(lastOp'.trail.visited) :
             LET pid == lastOp'.trail.visited[k]
                 status == lastOp'.trail.status[k]
             IN IF status = "yielded"
                THEN pid \in Live' /\ Count(lastOp'.trail.updated, pid) = 0
                ELSE /\ pid \notin Live'
                     /\ pid \in DOMAIN s_infoMap
                        => /\ s_infoMap[pid].endTime = 0
                           /\ Count(lastOp'.trail.updated, pid) = 1
                           /\ pid \in DOMAIN s_infoMap'
                           /\ s_infoMap'[pid].endTime = now
                           /\ s_infoMap'[pid].status = "Exited"
                           /\ status = "ok" => s_infoMap'[pid].returnValues = <<"r">>]_vars

C8_Witness ==
    /\ IsPulse(lastOp)
    /\ lastOp.why = "Swept"
    /\ \E pid \in DOMAIN s_infoMap :
          /\ StatusIn(lastOp, pid) = "ok"
          /\ Count(lastOp.trail.updated, pid) = 1
          /\ s_infoMap[pid].returnValues = <<"r">>
          /\ s_infoMap[pid].endTime = now

\* C9: an instance that has reached the Exited state (its coroutine reported a
\* terminal status, or it was stopped) is not resumed by any later pulse.
C9_ExitedNeverResumed ==
    [][IsPulse(lastOp') =>
         /\ \A pid \in exited : pid \notin lastOp'.trail.ran
         /\ \A i \in 1..Len(s_running) :
               s_running[i].co # "yielded" => s_running[i].pid \notin lastOp'.trail.ran]_vars

C9_Witness ==
    /\ IsPulse(lastOp)
    /\ lastOp.trail.ran # {}
    /\ \E pid \in exited :
          /\ pid \in DOMAIN s_infoMap /\ s_infoMap[pid].status = "Exited"
          /\ StatusIn(lastOp, pid) = "none"

\* C10, as claimed: after a registry sweep no record is left whose endTime is
\* older than the retention window.
C10_OlderThanWindowRemoved ==
    (IsPulse(lastOp) /\ lastOp.why = "Swept")
    => \A pid \in DOMAIN s_infoMap :
           ~(s_infoMap[pid].endTime > 0 /\ s_infoMap[pid].endTime + s_infoGC < now)

\* C10, amended: a registry sweep removes exactly the terminal records whose
\* endTime is at or before the previous GC checkpoint; a pulse without a sweep
\* removes none.
C10_SweepRemovesEndedByCheckpoint ==
    [][IsPulse(lastOp') =>
         \A pid \in DOMAIN s_infoMap :
             pid \notin DOMAIN s_infoMap'
             <=> /\ lastOp'.why = "Swept"
                 /\ s_infoMap[pid].endTime > 0
                 /\ s_infoMap[pid].endTime <= last_check_time]_vars

C10_Witness ==
    /\ IsPulse(lastOp)
    /\ lastOp.why = "Swept"
    /\ lastOp.trail.swept # {}
    /\ \E pid \in DOMAIN s_infoMap :
          s_infoMap[pid].endTime > 0 /\ s_infoMap[pid].endTime + s_infoGC < now

\* C11: a registry record with endTime = 0 (still running) is never removed by
\* a GC sweep, however long ago it started and whatever the retention window.
C11_RunningNeverSwept ==
    [][IsPulse(lastOp') =>
         \A pid \in DOMAIN s_infoMap :
             s_infoMap[pid].endTime = 0
             => pid \in DOMAIN s_infoMap' /\ pid \notin lastOp'.trail.swept]_vars

C11_Witness ==
    /\ IsPulse(lastOp)
    /\ lastOp.why = "Swept"
    /\ lastOp.trail.swept # {}
    /\ \E pid \in DOMAIN s_infoMap :
          /\ s_infoMap[pid].endTime = 0
          /\ s_infoMap[pid].startTime + s_infoGC < now
          /\ \A old \in lastOp.trail.swept : old > pid

\* C12: with retention window W, stored in milliseconds, a pulse sweeps exactly
\* when at least W milliseconds of wall-clock time have passed since the
\* previous GC checkpoint (now and the checkpoint are time_t seconds).
C12_SweepAfterWindowMs ==
    [][(IsPulse(lastOp') /\ s_infoGC > 0 /\ last_check_time > 0) =>
         (lastOp'.why = "Swept"
          <=> (now - last_check_time) * MsPerSecond >= s_infoGC)]_vars

\* C19: whenever the registry holds a record with endTime > 0, the un-indexed
\* script lookup succeeds and returns the record with the greatest startTime
\* among the records with endTime > 0, whatever running records there are and
\* whatever the iteration order of the map.
C19_LookupLatestEnded ==
    lastOp.op = "script" =>
        LET ended == {pid \in DOMAIN s_infoMap : s_infoMap[pid].endTime > 0}
        IN ended # {}
           => /\ lastOp.ret \in ended
              /\ \A pid \in ended :
                    s_infoMap[pid].startTime <= s_infoMap[lastOp.ret].startTime

\* C20: ids are unique and handed out in increasing order: a newly launched
\* instance never gets an id that a registry record (running or terminal), a
\* live instance or an earlier instance already has.
C20_FreshIncreasingId ==
    [][(IsLaunch(lastOp') /\ s_running' # s_running) =>
         LET new == s_running'[Len(s_running')].pid
         IN /\ new \notin Live
            /\ new \notin DOMAIN s_infoMap
            /\ \A pid \in Live \cup DOMAIN s_infoMap \cup exited : pid < new
            /\ lastOp'.ret # 0 => lastOp'.ret = new /\ new \in DOMAIN s_infoMap']_vars

C20_Witness ==
    /\ IsLaunch(lastOp)
    /\ lastOp.ret = 2
    /\ \E pid \in DOMAIN s_infoMap : pid < lastOp.ret /\ s_infoMap[pid].endTime # 0
    /\ 2 \in Live

IsChat(op) == op.op \in {"chat", "write"}

(* The thread with this pid in a thread vector that holds it *)
ThreadOf(running, pid) ==
    running[CHOOSE j \in 1..Len(running) : running[j].pid = pid]

(* What the handlers of the invocations in queue enqueue while they run: the
   handler of A writes the line b, which the triggers are matched against *)
RECURSIVE Pending(_, _)
Pending(queue, defs) ==
    IF queue = <<>> THEN <<>>
    ELSE (IF Head(queue).name = "A" /\ \E k \in 1..Len(defs) : defs[k].name = "B"
          THEN <<[name |-> "B", args |-> "b"]>> ELSE <<>>)
         \o Pending(Tail(queue), defs)

\* C13: one run_events() call invokes exactly the invocations that are queued
\* at its entry; what the handlers enqueue during the drain is not invoked in
\* that call and is pending afterwards.
C13_DrainTakesSnapshot ==
    [][IsPulse(lastOp') =>
         \A i \in 1..Len(s_running) :
             s_running[i].pid \in lastOp'.trail.ran =>
                 LET before == s_running[i]
                     after == ThreadOf(s_running', before.pid)
                 IN \/ /\ after.done = before.done
                       /\ after.log = <<>>
                       /\ after.queue = before.queue
                    \/ /\ after.done = before.done + Len(before.queue)
                       /\ Len(after.log) = Len(before.queue)
                       /\ after.queue = Pending(before.queue, before.defs)]_vars

C13_Witness ==
    /\ IsPulse(lastOp)
    /\ \E i \in 1..Len(s_running) :
          /\ s_running[i].pid \in lastOp.trail.ran
          /\ s_running[i].log = <<[name |-> "A", args |-> "a"]>>
          /\ s_running[i].queue = <<[name |-> "B", args |-> "b"]>>
          /\ s_running[i].done = 1

\* C14: the event queue is first in, first out: a delivered line puts its
\* invocations behind the ones already queued, and run_events() runs the
\* queued invocations in the order of the queue, one after the other.
C14_QueueIsFifo ==
    [][/\ IsChat(lastOp') =>
            \A i \in 1..Len(s_running) :
                /\ Len(s_running'[i].queue) >= Len(s_running[i].queue)
                /\ SubSeq(s_running'[i].queue, 1, Len(s_running[i].queue))
                      = s_running[i].queue
       /\ IsPulse(lastOp') =>
            \A i \in 1..Len(s_running) :
                LET before == s_running[i]
                    after == ThreadOf(s_running', before.pid)
                IN (before.pid \in lastOp'.trail.ran /\ after.done # before.done)
                   => after.log = before.queue]_vars

C14_Witness ==
    /\ IsPulse(lastOp)
    /\ \E i \in 1..Len(s_running) :
          /\ s_running[i].pid \in lastOp.trail.ran
          /\ Len(s_running[i].log) = 3
          /\ s_running[i].log[1].args = "a"
          /\ s_running[i].log[2] = [name |-> "A", args |-> "ab"]
          /\ s_running[i].log[3] = [name |-> "B", args |-> "ab"]

\* C15: the delivery of a host text line only queues the matched invocations,
\* it runs no handler; a handler runs only in a pulse that resumes the thread
\* that owns it.
C15_DeliveryOnlyEnqueues ==
    [][/\ IsChat(lastOp') =>
            /\ Len(s_running') = Len(s_running)
            /\ s_infoMap' = s_infoMap
            /\ \A i \in 1..Len(s_running) :
                  s_running'[i] = [s_running[i] EXCEPT !.queue = s_running'[i].queue]
       /\ \A i \in 1..Len(s_running) :
             (/\ s_running[i].pid \in {s_running'[j].pid : j \in 1..Len(s_running')}
              /\ ThreadOf(s_running', s_running[i].pid).done # s_running[i].done)
             => IsPulse(lastOp') /\ s_running[i].pid \in lastOp'.trail.ran]_vars

C15_Witness ==
    /\ IsChat(lastOp)
    /\ \E i \in 1..Len(s_running) :
          /\ s_running[i].queue = <<[name |-> "A", args |-> lastOp.arg]>>
          /\ s_running[i].done = 0

\* C16: a line that matches two triggers of one instance fires both: their
\* invocations are queued in the order the triggers were registered, and run in
\* that order.
C16_OverlappingTriggersInOrder ==
    [][/\ IsChat(lastOp') =>
            \A i \in 1..Len(s_running) :
                ~s_running[i].paused =>
                    LET hit == SelectSeq(s_running[i].defs,
                                         LAMBDA d : Matches(d.expression, lastOp'.arg))
                        old == Len(s_running[i].queue)
                    IN /\ Len(s_running'[i].queue) = old + Len(hit)
                       /\ \A k \in 1..Len(hit) :
                             s_running'[i].queue[old + k]
                                = [name |-> hit[k].name, args |-> lastOp'.arg]
       /\ IsPulse(lastOp') =>
            \A i \in 1..Len(s_running) :
                LET before == s_running[i]
                    after == ThreadOf(s_running', before.pid)
                IN (before.pid \in lastOp'.trail.ran /\ after.done # before.done)
                   => \A k \in 1..(Len(before.queue) - 1) :
                          before.queue[k].args = before.queue[k + 1].args
                          => /\ after.log[k] = before.queue[k]
                             /\ after.log[k + 1] = before.queue[k + 1]]_vars

C16_Witness ==
    /\ IsPulse(lastOp)
    /\ \E i \in 1..Len(s_running) :
          /\ Len(s_running[i].defs) = 2
          /\ s_running[i].defs[1].name = "B" /\ s_running[i].defs[2].name = "A"
          /\ s_running[i].log = <<[name |-> "B", args |-> "ab"], [name |-> "A", args |-> "ab"]>>

Ceil(a, b) == (a + b - 1) \div b

C18_FalseConditionNeverResumes ==
    [][IsPulse(lastOp') =>
         \A i \in 1..Len(s_running) :
             LET thread == s_running[i]
             IN (thread.wake > 0 /\ thread.cond = "never")
                => /\ thread.pid \notin lastOp'.trail.ran
                   /\ ~thread.abandoned
                      => /\ thread.pid \in {s_running'[j].pid : j \in 1..Len(s_running')}
                         /\ ThreadOf(s_running', thread.pid).wake = thread.wake
                         /\ ThreadOf(s_running', thread.pid).cond = "never"]_vars

C18_Witness ==
    /\ IsPulse(lastOp)
    /\ \E i \in 1..Len(s_running) :
          /\ s_running[i].cond = "never"
          /\ s_running[i].wake > 0
          /\ clock > s_running[i].wake + tickIntervalMs
          /\ StatusIn(lastOp, s_running[i].pid) = "yielded"
          /\ s_running[i].pid \notin lastOp.trail.ran

(* The records of parsed text *)
ParseRecords(map) == {pid \in DOMAIN map : map[pid].name = ParseName}

\* C21, as claimed: the terminal records of parsed-text launches coexist until
\* GC: a terminal record of parsed text leaves the registry only when a GC
\* sweep removes it.
C21_ParseRecordsCoexist ==
    [][\A pid \in ParseRecords(s_infoMap) :
           (s_infoMap[pid].endTime # 0 /\ pid \notin DOMAIN s_infoMap')
           => IsPulse(lastOp') /\ pid \in lastOp'.trail.swept]_vars

\* C21, amended: the registry holds at most one record of parsed text: a
\* parsed-text launch that is not rejected first removes the terminal record of
\* the previous one, and a terminal record of parsed text stays until the next
\* parsed-text launch or a GC sweep removes it.
C21_ParseRecordReplaced ==
    [][/\ Cardinality(ParseRecords(s_infoMap')) <= 1
       /\ (lastOp'.op = "parse" /\ s_running' # s_running)
          => ParseRecords(s_infoMap) \cap DOMAIN s_infoMap' = {}
       /\ \A pid \in ParseRecords(s_infoMap) :
             (s_infoMap[pid].endTime # 0 /\ pid \notin DOMAIN s_infoMap')
             => \/ IsPulse(lastOp') /\ pid \in lastOp'.trail.swept
                \/ lastOp'.op = "parse" /\ s_running' # s_running]_vars

C21_Witness ==
    /\ lastOp.op = "parse"
    /\ lastOp.ret = 3
    /\ lastOp.trail.evicted = {2}
    /\ ParseRecords(s_infoMap) = {3}
    /\ 1 \in exited /\ 2 \in exited

(* The index in s_running of the thread a command with this argument finds *)
Addressed(arg) ==
    FindIf({i \in 1..Len(s_running) :
               ToString(s_running[i].pid) = arg \/ s_running[i].name = arg})

\* C22: pause is a toggle on one instance: a pause request addressed to a
\* running instance makes it paused, one addressed to a paused instance makes
\* it running, and two consecutive requests addressed to the same instance,
\* with no pulse in between, leave the live set and the registry as they were.
C22_PauseTwiceRestores ==
    [][(lastOp'.op = "pause" /\ lastOp'.why = "Toggled") =>
         LET i == Addressed(lastOp'.arg)
         IN /\ i # 0
            /\ s_running'[i].paused = ~s_running[i].paused
            /\ s_running[i].pid \in DOMAIN s_infoMap
               => s_infoMap'[s_running[i].pid].status
                     = (IF s_running[i].paused THEN "Running" ELSE "Paused")
            /\ (lastOp.op = "pause" /\ lastOp.why = "Toggled" /\ lastOp.arg = lastOp'.arg)
               => /\ s_running' = lastOp.trail.before[1]
                  /\ s_infoMap' = lastOp.trail.before[2]]_vars

C22_Witness ==
    /\ lastOp.op = "pause" /\ lastOp.why = "Toggled" /\ lastOp.arg = "2"
    /\ Len(s_running) = 2
    /\ ~s_running[2].paused /\ s_running[1].paused
    /\ lastOp.trail.before[1][2].paused
    /\ 2 \in DOMAIN s_infoMap /\ s_infoMap[2].status = "Running"
    /\ lastOp.trail.before[2][2].status = "Paused"

\* C23: the record's status mirrors the instance: when a pause/resume command
\* has completed, every live instance that has a registry record has the status
\* Paused in it exactly when the instance is paused.
C23_RecordMirrorsPause ==
    [][lastOp'.op = "pause" =>
         \A i \in 1..Len(s_running') :
             s_running'[i].pid \in DOMAIN s_infoMap'
             => (s_infoMap'[s_running'[i].pid].status = "Paused"
                 <=> IsPaused(s_running'[i]))]_vars

C23_Witness ==
    /\ lastOp.op = "pause" /\ lastOp.why = "PausingAll"
    /\ Len(s_running) = 2
    /\ \A i \in 1..2 : s_running[i].pid \in DOMAIN s_infoMap
    /\ IsPaused(s_running[2]) /\ s_infoMap[s_running[2].pid].status = "Paused"
    /\ ~IsPaused(s_running[1]) /\ s_infoMap[s_running[1].pid].status = "Running"

(* The name a trigger call is about, and the trigger it asks to register *)
CallName(call) == IF call = "addB" THEN "B" ELSE "A"

CallTrigger(call) ==
    CASE call = "addA"   -> [name |-> "A", expression |-> "a", function |-> "f"]
      [] call = "addB"   -> [name |-> "B", expression |-> "b", function |-> "f"]
      [] call = "readdA" -> [name |-> "A", expression |-> "b", function |-> "g"]

\* C24: trigger names are unique per instance: no instance ever holds two
\* triggers of one name, a registration leaves exactly the newly registered
\* trigger under its name (the old one of that name is removed, the triggers of
\* other names stay in order), and a removal leaves none of that name.
C24_TriggerNamesUnique ==
    [][/\ \A i \in 1..Len(s_running') :
             \A k, l \in 1..Len(s_running'[i].defs) :
                 k # l => s_running'[i].defs[k].name # s_running'[i].defs[l].name
       /\ IsPulse(lastOp') =>
            \A i \in 1..Len(s_running) :
                s_running[i].pid \in lastOp'.trail.ran =>
                    LET before == s_running[i]
                        after == ThreadOf(s_running', before.pid)
                        others == SelectSeq(before.defs,
                                            LAMBDA d : d.name # CallName(after.call))
                    IN /\ after.call \in {"addA", "addB", "readdA"}
                          => after.defs = Append(others, CallTrigger(after.call))
                       /\ after.call = "removeA" => after.defs = others
                       /\ after.call = "none" => after.defs = before.defs]_vars

C24_Witness ==
    /\ IsPulse(lastOp)
    /\ \E i \in 1..Len(s_running) :
          /\ s_running[i].pid \in lastOp.trail.ran
          /\ s_running[i].call = "readdA"
          /\ s_running[i].queue = <<[name |-> "A", args |-> "a"]>>
          /\ s_running[i].defs
                = <<[name |-> "B", expression |-> "b", function |-> "f"],
                    [name |-> "A", expression |-> "b", function |-> "g"]>>

\* C25: a registration with a malformed pattern is rejected with no partial
\* effect: the instance's triggers and its event queue are after the call what
\* they were before it.
C25_MalformedChangesNothing ==
    [][IsPulse(lastOp') =>
         \A i \in 1..Len(s_running) :
             s_running[i].pid \in lastOp'.trail.ran =>
                 LET before == s_running[i]
                     after == ThreadOf(s_running', before.pid)
                 IN after.call = "addBad"
                    => /\ after.defs = before.defs
                       /\ after.queue = before.queue]_vars

C25_Witness ==
    /\ IsPulse(lastOp)
    /\ \E i \in 1..Len(s_running) :
          /\ s_running[i].pid \in lastOp.trail.ran
          /\ s_running[i].call = "addBad"
          /\ s_running[i].queue # <<>>
          /\ \E k \in 1..Len(s_running[i].defs) : s_running[i].defs[k].name = "A"

\* C26: a rejected launch has no side effect: a file launch whose path does not
\* exist, or whose path is that of a record that is still running, and a
\* parsed-text launch while the record of parsed text is still running, return
\* 0 and leave the live set and the registry as they were.
C26_RejectedLaunchChangesNothing ==
    [][/\ lastOp'.op = "run" =>
            LET path == ScriptPath(lastOp'.arg)
            IN (\/ ~PathExists(path)
                \/ \E pid \in DOMAIN s_infoMap :
                      s_infoMap[pid].path = path /\ s_infoMap[pid].endTime = 0)
               => /\ lastOp'.ret = 0
                  /\ lastOp'.why \in {"NotFound", "AlreadyRunning"}
                  /\ s_running' = s_running
                  /\ s_infoMap' = s_infoMap
       /\ (/\ lastOp'.op = "parse"
           /\ \E pid \in ParseRecords(s_infoMap) : s_infoMap[pid].endTime = 0)
            => /\ lastOp'.ret = 0
               /\ lastOp'.why = "AlreadyRunning"
               /\ s_running' = s_running
               /\ s_infoMap' = s_infoMap
       /\ (IsLaunch(lastOp') /\ lastOp'.why \in {"NotFound", "AlreadyRunning"})
          => /\ lastOp'.ret = 0
             /\ s_running' = s_running
             /\ s_infoMap' = s_infoMap]_vars

C26_Witness ==
    /\ lastOp.op = "run" /\ lastOp.arg = "a.lua"
    /\ lastOp.why = "AlreadyRunning" /\ lastOp.ret = 0
    /\ Len(s_running) = 1
    /\ s_running[1].name = "a"
    /\ DOMAIN s_infoMap = {1} /\ s_infoMap[1].endTime = 0

(* The milliseconds one unit of the option stands for *)
UnitMs(unit) ==
    CASE unit = ""   -> 1
      [] unit = "ms" -> 1
      [] unit = "s"  -> 1000
      [] unit = "m"  -> 60000
      [] unit = "h"  -> 3600000

\* C27: the retention-window option accepts every listed form for every
\* non-negative integer N, single-digit N included: after the settings are read
\* with the value N, Nms, Ns, Nm or Nh the window is N, N, 1000*N, 60000*N or
\* 3600000*N milliseconds.
C27_EveryFormAccepted ==
    lastOp.op = "settings" => s_infoGC = lastOp.ret * UnitMs(lastOp.why)

\* C28: pause with no target never leaves a mixed state: when at least one live
\* script is not paused, every live script is paused after the command (those
\* that were paused stay paused); when every live script is paused, every live
\* script is running after it.
C28_PauseAllNeverMixed ==
    [][(lastOp'.op = "pause" /\ lastOp'.arg = "") =>
         /\ Len(s_running') = Len(s_running)
         /\ IF \E i \in 1..Len(s_running) : ~s_running[i].paused
            THEN \A i \in 1..Len(s_running') : s_running'[i].paused
            ELSE \A i \in 1..Len(s_running') : ~s_running'[i].paused]_vars

\* C29: a stop takes effect whatever the pause and delay state of its target:
\* the stop leaves that state as it is, and the very next pulse removes a
\* stopped instance that is paused or delayed from the live set and closes its
\* record, without resuming it, un-pausing it or waiting for its wake time or
\* condition.
C29_StopEndsPausedAndDelayed ==
    [][/\ lastOp'.op = "stop" =>
            /\ Len(s_running') = Len(s_running)
            /\ \A i \in 1..Len(s_running) :
                  /\ s_running'[i].paused = s_running[i].paused
                  /\ s_running'[i].wake = s_running[i].wake
                  /\ s_running'[i].cond = s_running[i].cond
                  /\ ToString(s_running[i].pid) = lastOp'.arg => s_running'[i].pid \in exited'
       /\ IsPulse(lastOp') =>
            \A i \in 1..Len(s_running) :
                LET thread == s_running[i]
                IN (thread.pid \in exited /\ (thread.paused \/ thread.wake > 0))
                   => /\ thread.pid \notin Live'
                      /\ thread.pid \notin lastOp'.trail.ran
                      /\ thread.pid \in DOMAIN s_infoMap
                         => /\ thread.pid \in DOMAIN s_infoMap'
                            /\ s_infoMap'[thread.pid].endTime # 0
                            /\ s_infoMap'[thread.pid].status = "Exited"]_vars

C29_Witness ==
    /\ IsPulse(lastOp)
    /\ lastOp.trail.held = {2}
    /\ lastOp.trail.ran = {}
    /\ s_running = <<>>
    /\ clock < 500
    /\ s_infoMap[2].status = "Exited" /\ s_infoMap[2].endTime # 0

\* C30: a line delivered while an instance is paused is not matched against its
\* triggers: the delivery leaves the paused instance, its event queue included,
\* as it was, while every instance that is not paused gets one invocation
\* queued per trigger the line matches; un-pausing queues nothing either, so
\* the line never reaches a handler of the paused instance.
C30_PausedGetsNoLines ==
    [][/\ IsChat(lastOp') =>
            /\ Len(s_running') = Len(s_running)
            /\ \A i \in 1..Len(s_running) :
                  IF s_running[i].paused
                  THEN s_running'[i] = s_running[i]
                  ELSE Len(s_running'[i].queue)
                          = Len(s_running[i].queue)
                            + Cardinality({k \in 1..Len(s_running[i].defs) :
                                  Matches(s_running[i].defs[k].expression, lastOp'.arg)})
       /\ lastOp'.op = "pause" =>
            \A i \in 1..Len(s_running) :
                /\ s_running'[i].queue = s_running[i].queue
                /\ s_running'[i].done = s_running[i].done]_vars

C30_Witness ==
    /\ IsChat(lastOp)
    /\ Len(s_running) = 2
    /\ s_running[1].paused /\ s_running[1].defs # <<>> /\ s_running[1].queue = <<>>
    /\ s_running[1].done = 0
    /\ ~s_running[2].paused
    /\ s_running[2].queue = <<[name |-> "A", args |-> lastOp.arg]>>

\* C31: a stop that names a pid or a name affects at most one instance, the
\* first match in launch order, and nothing else: the other live instances, the
\* order of the live set and every registry record are as before; a stop whose
\* pid or name matches no live instance changes nothing at all.
C31_StopTouchesOnlyFirstMatch ==
    [][(lastOp'.op = "stop" /\ lastOp'.arg # "") =>
         LET i == Addressed(lastOp'.arg)
         IN /\ s_infoMap' = s_infoMap
            /\ Len(s_running') = Len(s_running)
            /\ PidsOf(s_running') = PidsOf(s_running)
            /\ \A j \in 1..Len(s_running) : j # i => s_running'[j] = s_running[j]
            /\ i # 0 => s_running'[i] = [s_running[i] EXCEPT !.abandoned = TRUE]
            /\ i = 0 => s_running' = s_running /\ exited' = exited
            /\ UNCHANGED <<s_infoGC, last_check_time, now, next_id, clock>>]_vars

C31_Witness ==
    /\ lastOp.op = "stop" /\ lastOp.arg = "a"
    /\ Len(s_running) = 2
    /\ s_running[1].name = "a" /\ s_running[2].name = "a"
    /\ s_running[1].abandoned /\ ~s_running[2].abandoned
    /\ 2 \in DOMAIN s_infoMap /\ s_infoMap[2].endTime = 0

\* C32: terminal records are immutable: once a record's endTime is nonzero no
\* operation changes a field of it (endTime stays, status stays Exited); the
\* record can only leave the registry, evicted by a launch or swept by the GC
\* of a pulse, and never in a pause, a stop or a line delivery.
C32_TerminalRecordImmutable ==
    [][\A pid \in DOMAIN s_infoMap :
           s_infoMap[pid].endTime # 0
           => /\ s_infoMap[pid].status = "Exited"
              /\ IF pid \in DOMAIN s_infoMap'
                 THEN s_infoMap'[pid] = s_infoMap[pid]
                 ELSE \/ IsLaunch(lastOp') /\ pid \in lastOp'.trail.evicted
                      \/ IsPulse(lastOp') /\ pid \in lastOp'.trail.swept]_vars

C32_Witness ==
    /\ lastOp.op = "pause" /\ lastOp.why = "PausingAll"
    /\ now > 2
    /\ \E pid \in DOMAIN s_infoMap, live \in Live :
          /\ s_infoMap[pid].endTime # 0 /\ s_infoMap[pid].endTime < now
          /\ s_infoMap[pid].status = "Exited"
          /\ live \in DOMAIN s_infoMap /\ s_infoMap[live].status = "Paused"

(* The records of script files *)
FileRecords(map) == {pid \in DOMAIN map : map[pid].name # ParseName}

\* C33: the registry never holds two records of one resolved script file path:
\* a file launch that finds a record of its path is rejected when that record
\* is not terminal, and otherwise evicts it before it adds its own.
C33_OneRecordPerPath ==
    [][/\ \A p, q \in FileRecords(s_infoMap') :
             p # q => s_infoMap'[p].path # s_infoMap'[q].path
       /\ lastOp'.op = "run" =>
            \A old \in FileRecords(s_infoMap) :
                s_infoMap[old].path = ScriptPath(lastOp'.arg)
                => IF s_infoMap[old].endTime = 0
                   THEN lastOp'.ret = 0 /\ s_infoMap' = s_infoMap /\ s_running' = s_running
                   ELSE /\ old \notin DOMAIN s_infoMap'
                        /\ lastOp'.trail.evicted = {old}]_vars

C33_Witness ==
    /\ lastOp.op = "run" /\ lastOp.arg = "a.lua" /\ lastOp.ret = 2
    /\ lastOp.trail.evicted = {1}
    /\ DOMAIN s_infoMap = {2}
    /\ s_infoMap[2].path = "a.lua"
    /\ 1 \in exited
====
